---- MODULE Spec2Model ----
(***************************************************************************)
(* Sierpinski triangle simulator (src/unnamed/part_000, the App component  *)
(* and its helpers; src/types.ts for Point and Viewport).                  *)
(*                                                                         *)
(* Numbers.  The source computes in IEEE doubles.  The model computes      *)
(* exactly on a grid and keeps the three non-finite outcomes a double can  *)
(* take (NaN, +Infinity, -Infinity), because a zoom can produce them:      *)
(*   - world x is an integer count of 1/G world units;                     *)
(*   - the y axis, world and screen alike, is measured in units of         *)
(*     sqrt(0.75): world y is an integer count of sqrt(0.75)/G and a       *)
(*     screen height or mouse y of h stands for h*sqrt(0.75) pixels.       *)
(*     Every formula of the source is linear in its y quantities, so this  *)
(*     change of unit commutes with all of them and VERTICES[2] becomes    *)
(*     (G/2, G);                                                           *)
(*   - scale is an integer count of pixels per world unit, or 0.           *)
(* G and the input sets are chosen so that every division the source       *)
(* performs on those inputs is exact.                                      *)
(***************************************************************************)
EXTENDS Integers, Sequences, FiniteSets, TLC

(***************************************************************************)
(* Bounds of the model.                                                    *)
(***************************************************************************)
\* Points produced by one animated run (100 in the source, line 275).
AnimationSteps == 5
\* User events (clicks, wheel, mouse, resize) explored in one behaviour.
MaxEvents == 3

\* Generation is explored while the point collection holds at most this many
\* points: one animated run and one more point.
MaxPoints == AnimationSteps + 1

(***************************************************************************)
(* Program constants.                                                      *)
(***************************************************************************)
\* life of a new highlight (line 296)
HighlightLife == 5
\* rejection-sampling attempts of findSeedPoint (line 238)
SeedAttempts == 100

(***************************************************************************)
(* The number grid.                                                        *)
(***************************************************************************)
\* Every coordinate the inputs produce is a multiple of Sub / 2, so MaxPoints
\* halvings are exact.
Sub == 2 ^ (MaxPoints + 1)
\* grid units per world unit
G == 40 * Sub

\* Non-finite doubles.  Every finite value of the model is far below Inf.
Inf == 2 ^ 29
NegInf == 0 - Inf
NaN == 2 ^ 30

IsNaN(a) == a = NaN
IsFinite(a) == a # NaN /\ a # Inf /\ a # NegInf

FNeg(a) == IF IsNaN(a) THEN NaN ELSE 0 - a

\* a + b on doubles
FAdd(a, b) ==
  IF IsNaN(a) \/ IsNaN(b) THEN NaN
  ELSE IF a = Inf THEN (IF b = NegInf THEN NaN ELSE Inf)
  ELSE IF a = NegInf THEN (IF b = Inf THEN NaN ELSE NegInf)
  ELSE IF b = Inf \/ b = NegInf THEN b
  ELSE a + b

FSub(a, b) == FAdd(a, FNeg(b))

\* a / 2 on doubles
FHalf(a) == IF IsFinite(a) THEN a \div 2 ELSE a

\* a * (n/4) on doubles, n > 0
FQuarters(a, n) == IF IsFinite(a) THEN (a * n) \div 4 ELSE a

\* px / scale as a world length in grid units: px pixels at scale pixels per
\* world unit.  Division by zero gives +-Infinity, 0/0 gives NaN.
PxToWorld(px, scale) ==
  IF IsNaN(scale) THEN NaN
  ELSE IF scale = Inf THEN 0
  ELSE IF scale = 0
  THEN (IF px = 0 THEN NaN ELSE IF px > 0 THEN Inf ELSE NegInf)
  ELSE (px * G) \div scale

\* Comparisons on doubles: any comparison with NaN is false.
FLt(a, b) == ~IsNaN(a) /\ ~IsNaN(b) /\ a < b
FGe(a, b) == ~IsNaN(a) /\ ~IsNaN(b) /\ a >= b
FLe(a, b) == ~IsNaN(a) /\ ~IsNaN(b) /\ a <= b

(***************************************************************************)
(* Geometry.                                                               *)
(***************************************************************************)
Pt(x, y) == [x |-> x, y |-> y]

VERTICES == << Pt(0, 0), Pt(G, 0), Pt(G \div 2, G) >>

\* (p.x - vb.x) * (va.y - vb.y) - (va.x - vb.x) * (p.y - vb.y) (lines 51-53),
\* with the vertex differences taken in units of Sub (vertices are multiples
\* of Sub): the value is the source's divided by Sub, its sign the source's.
CrossD(p, va, vb) ==
  IF IsNaN(p.x) \/ IsNaN(p.y) THEN NaN
  ELSE (p.x - vb.x) * ((va.y - vb.y) \div Sub)
       - ((va.x - vb.x) \div Sub) * (p.y - vb.y)

\* isPointInTriangle looking for a negative cross product only.
isPointInTriangleNoPos(p, vertices) ==
  LET d1 == CrossD(p, vertices[1], vertices[2])
      d2 == CrossD(p, vertices[2], vertices[3])
      d3 == CrossD(p, vertices[3], vertices[1])
      has_neg == FLt(d1, 0) \/ FLt(d2, 0) \/ FLt(d3, 0)
  IN ~has_neg

isPointInTriangle(p, vertices) ==
  LET d1 == CrossD(p, vertices[1], vertices[2])
      d2 == CrossD(p, vertices[2], vertices[3])
      d3 == CrossD(p, vertices[3], vertices[1])
      has_neg == FLt(d1, 0) \/ FLt(d2, 0) \/ FLt(d3, 0)
      has_pos == FLt(0, d1) \/ FLt(0, d2) \/ FLt(0, d3)
  IN ~(has_neg /\ has_pos)

\* The triangle as a set of the plane: what "inside or on the boundary of
\* the fixed triangle" means, independent of isPointInTriangle.
InTriangle(p) ==
  /\ IsFinite(p.x) /\ IsFinite(p.y)
  /\ p.y >= 0
  /\ 2 * p.x >= p.y
  /\ 2 * p.x + p.y <= 2 * G

(***************************************************************************)
(* Viewport.                                                               *)
(***************************************************************************)
Min(a, b) == IF a <= b THEN a ELSE b

\* INITIAL_VIEWPORT_PADDING = 1.1: width / 1.1 = 10 * width / 11.
getInitialViewport(width, height) ==
  LET scaleX == (10 * width) \div 11
      scaleY == (10 * height) \div 11
  IN [x |-> G \div 2, y |-> G \div 2, scale |-> Min(scaleX, scaleY)]

\* Math.pow(0.998, deltaY) as a fraction num/den.  deltaY is given in
\* octaves: deltaY = k * ln 2 / ln(1/0.998) (about 346.23 k), for which the
\* power is 2^(-k).  From k = 1075 on the double result is below the least
\* positive double and rounds to 0 (Math.pow(0.998, 380000) === 0); up to
\* k = -1024 it is above the greatest double and is Infinity.
Pow998(k) ==
  IF k >= 1074 + 1 THEN [num |-> 0, den |-> 1]
  ELSE IF k <= 0 - 1024 THEN [num |-> Inf, den |-> 1]
  ELSE IF k >= 0 THEN [num |-> 1, den |-> 2 ^ k]
  ELSE [num |-> 2 ^ (0 - k), den |-> 1]

\* viewport.scale * zoomFactor on doubles (line 332): 0 * Infinity is NaN.
ScaleTimes(scale, zoomFactor) ==
  IF IsNaN(scale) THEN NaN
  ELSE IF zoomFactor.num = Inf THEN (IF scale = 0 THEN NaN ELSE Inf)
  ELSE IF scale = Inf THEN (IF zoomFactor.num = 0 THEN NaN ELSE Inf)
  ELSE (scale * zoomFactor.num) \div zoomFactor.den

\* Wheel deltas, in octaves: one octave in, one octave out, and a delta whose
\* zoom factor underflows.
WheelDeltas == {0 - 1, 1, 1100}

\* Bounding rectangles of the canvas (width, height); <<0, 0>> is a canvas
\* without area.
Sizes == { <<0, 0>>, <<44, 44>>, <<88, 22>> }

\* Mouse positions (clientX, clientY); the canvas fills the window, so
\* rect.left = rect.top = 0.
Positions == { <<0, 0>>, <<22, 22>> }

\* Values of Math.random(), in quarters.
Randoms == {1, 3}

\* pointsPerClick: 1, 2, 3 stand for 100, 1000, 10000 (line 394).
PointsPerClickOptions == {1, 2, 3}

(***************************************************************************)
(* State.                                                                  *)
(***************************************************************************)
VARIABLES
  points,               \* useState<Point[]> (line 73) = pointsRef.current
  currentPointRef,      \* useRef<Point> (line 77)
  viewport,             \* useState<Viewport> (line 78)
  canvas,               \* canvas.width, canvas.height (lines 120-121)
  rect,                 \* canvas.getBoundingClientRect()
  isDragging,           \* line 79
  dragStartRef,         \* line 80
  pointsPerClick,       \* line 83
  isAnimationMode,      \* line 84
  isGenerating,         \* line 85
  animationStep,        \* line 88: <<>> is null, <<s>> a step
  highlightedVertices,  \* line 89
  animationTimeoutRef,  \* line 90: 0 is null, else a timer id
  timers,               \* pending window.setTimeout callbacks
  lastSeed,             \* history: the last result of findSeedPoint
  runBase,              \* history: points.length when the last run started
  lastEvent,            \* history: the user event handled last (a reset during
                        \* a run is "resetRunning")
  events                \* history: user events so far

vars == << points, currentPointRef, viewport, canvas, rect, isDragging,
           dragStartRef, pointsPerClick, isAnimationMode, isGenerating,
           animationStep, highlightedVertices, animationTimeoutRef, timers,
           lastSeed, runBase, lastEvent, events >>

uiVars == << isDragging, dragStartRef, pointsPerClick, isAnimationMode >>
pointVars == << points, currentPointRef, lastSeed >>
animVars == << isGenerating, animationStep, highlightedVertices,
               animationTimeoutRef, timers, runBase >>

(***************************************************************************)
(* Chaos game.                                                             *)
(***************************************************************************)
\* getInitialPoint for Math.random() = s/4 and t/4.
InitialPointAt(s, t) ==
  LET s1 == IF s + t > 4 THEN 4 - s ELSE s
      t1 == IF s + t > 4 THEN 4 - t ELSE t
  IN Pt((VERTICES[1].x * (4 - s1 - t1) + VERTICES[2].x * s1
           + VERTICES[3].x * t1) \div 4,
        (VERTICES[1].y * (4 - s1 - t1) + VERTICES[2].y * s1
           + VERTICES[3].y * t1) \div 4)

\* The points getInitialPoint can return.
getInitialPoint == { InitialPointAt(s, t) : s \in Randoms, t \in Randoms }

\* The visible world rectangle of findSeedPoint (lines 227-232).
View(vp, cv) ==
  LET worldWidth == PxToWorld(cv.width, vp.scale)
      worldHeight == PxToWorld(cv.height, vp.scale)
  IN [worldWidth |-> worldWidth, worldHeight |-> worldHeight,
      xMin |-> FSub(vp.x, FHalf(worldWidth)),
      xMax |-> FAdd(vp.x, FHalf(worldWidth)),
      yMin |-> FSub(vp.y, FHalf(worldHeight)),
      yMax |-> FAdd(vp.y, FHalf(worldHeight))]

isPointInView(p, v) ==
  FGe(p.x, v.xMin) /\ FLe(p.x, v.xMax) /\ FGe(p.y, v.yMin) /\ FLe(p.y, v.yMax)

\* randomPointInView for Math.random() = rx/4 and ry/4 (lines 239-242).
RandomPointInView(v, rx, ry) ==
  Pt(FAdd(v.xMin, FQuarters(v.worldWidth, rx)),
     FAdd(v.yMin, FQuarters(v.worldHeight, ry)))

SeedResult(p, how) == [p |-> p, how |-> how]

\* The rejection loop of findSeedPoint (lines 238-247): the results it can
\* return.  A run of the loop is i rejected draws followed by an accepted
\* one, for some i < SeedAttempts, or SeedAttempts rejected draws followed by
\* the fallback; i draws in a row can be rejected iff i = 0 or some draw is
\* rejected.
SeedLoop(v) ==
  LET samples == { RandomPointInView(v, rx, ry) :
                     rx \in Randoms, ry \in Randoms }
      accepted == { q \in samples : isPointInTriangle(q, VERTICES) }
      canReject(i) == i = 0 \/ accepted # samples
  IN { SeedResult(q, "sampled") :
         q \in { a \in accepted :
                   \E i \in 0..(SeedAttempts - 1) : canReject(i) } }
     \cup (IF canReject(SeedAttempts)
           THEN { SeedResult(q, "fallback") : q \in getInitialPoint }
           ELSE {})

\* findSeedPoint without the test for an empty collection (line 237).
findSeedPointInViewOnly(current) ==
  LET v == View(viewport, canvas)
  IN IF ~isPointInView(current, v)
     THEN SeedLoop(v)
     ELSE { SeedResult(current, "current") }

\* findSeedPoint(current): the results it can return (lines 223-250).
findSeedPoint(current) ==
  LET v == View(viewport, canvas)
  IN IF Len(points) = 0 \/ ~isPointInView(current, v)
     THEN SeedLoop(v)
     ELSE { SeedResult(current, "current") }

\* One iteration: the midpoint of current and targetVertex (lines 257-260).
Midpoint(current, targetVertex) ==
  Pt(FHalf(FAdd(current.x, targetVertex.x)),
     FHalf(FAdd(current.y, targetVertex.y)))

\* The point sequences n iterations from current can produce (lines 255-263).
RECURSIVE Iterate(_, _)
Iterate(current, n) ==
  IF n = 0 THEN { <<>> }
  ELSE UNION { { <<Midpoint(current, VERTICES[k])>> \o rest :
                   rest \in Iterate(Midpoint(current, VERTICES[k]), n - 1) } :
               k \in 1..3 }

(***************************************************************************)
(* Animation.                                                              *)
(***************************************************************************)
\* The updater pruning at life < 0 instead of life <= 0.
NextHighlightsKeepZero(prev, targetVertex) ==
  LET added == << [vertex |-> targetVertex, life |-> HighlightLife] >> \o prev
      aged == [i \in 1..Len(added) |->
                 [vertex |-> added[i].vertex, life |-> added[i].life - 1]]
      alive(h) == h.life >= 0
  IN SelectSeq(aged, alive)

\* The updater of setHighlightedVertices (lines 295-299).
NextHighlights(prev, targetVertex) ==
  LET added == << [vertex |-> targetVertex, life |-> HighlightLife] >> \o prev
      aged == [i \in 1..Len(added) |->
                 [vertex |-> added[i].vertex, life |-> added[i].life - 1]]
      alive(h) == h.life > 0
  IN SelectSeq(aged, alive)

\* A timer id that names no pending timeout and is not the stored handle.
FreshTimerId(pending) ==
  CHOOSE i \in 1..(Cardinality(pending) + 2) :
    /\ i # animationTimeoutRef
    /\ \A t \in pending : t.id # i

\* step(count) of animateGeneration (lines 274-306), stopping at limit, run
\* in the closure whose localCurrent is given, with the timeouts in pending
\* still waiting; generating is the value isGenerating has when step is
\* called (animateGeneration has set it, line 269).
stepUpTo(limit, count, localCurrent, pending, generating) ==
  IF count >= limit
  THEN /\ isGenerating' = FALSE
       /\ animationStep' = <<>>
       /\ highlightedVertices' = <<>>
       /\ currentPointRef' = localCurrent
       /\ timers' = pending
       /\ UNCHANGED << points, animationTimeoutRef >>
  ELSE \E k \in 1..3 :
         LET targetVertex == VERTICES[k]
             nextPoint == Midpoint(localCurrent, targetVertex)
             id == FreshTimerId(pending)
         IN /\ animationStep' = << [currentPoint |-> localCurrent,
                                    targetVertex |-> targetVertex,
                                    newPoint |-> nextPoint] >>
            /\ highlightedVertices' =
                 NextHighlights(highlightedVertices, targetVertex)
            /\ points' = Append(points, nextPoint)
            /\ timers' = pending \cup
                 { [id |-> id, count |-> count + 1, localCurrent |-> nextPoint] }
            /\ animationTimeoutRef' = id
            /\ isGenerating' = generating
            /\ UNCHANGED currentPointRef

\* step with the bound off by one: count > 100 instead of count >= 100.
stepOneMore(count, localCurrent, pending, generating) ==
  stepUpTo(AnimationSteps + 1, count, localCurrent, pending, generating)

\* step with the bound one lower: count >= 99.
stepOneLess(count, localCurrent, pending, generating) ==
  stepUpTo(AnimationSteps - 1, count, localCurrent, pending, generating)

\* step publishing its animationStep after localCurrent = nextPoint (line
\* 303 before line 289): currentPoint is the new point.
stepLatePublish(count, localCurrent, pending, generating) ==
  IF count >= AnimationSteps
  THEN /\ isGenerating' = FALSE
       /\ animationStep' = <<>>
       /\ highlightedVertices' = <<>>
       /\ currentPointRef' = localCurrent
       /\ timers' = pending
       /\ UNCHANGED << points, animationTimeoutRef >>
  ELSE \E k \in 1..3 :
         LET targetVertex == VERTICES[k]
             nextPoint == Midpoint(localCurrent, targetVertex)
             id == FreshTimerId(pending)
         IN /\ animationStep' = << [currentPoint |-> nextPoint,
                                    targetVertex |-> targetVertex,
                                    newPoint |-> nextPoint] >>
            /\ highlightedVertices' =
                 NextHighlights(highlightedVertices, targetVertex)
            /\ points' = Append(points, nextPoint)
            /\ timers' = pending \cup
                 { [id |-> id, count |-> count + 1, localCurrent |-> nextPoint] }
            /\ animationTimeoutRef' = id
            /\ isGenerating' = generating
            /\ UNCHANGED currentPointRef

step(count, localCurrent, pending, generating) ==
  stepUpTo(AnimationSteps, count, localCurrent, pending, generating)

\* A pending timeout fires: () => step(count + 1) (line 305).
TimerFire ==
  \E t \in timers :
    /\ step(t.count, t.localCurrent, timers \ {t}, isGenerating)
    /\ UNCHANGED << viewport, canvas, rect, uiVars, lastSeed, runBase,
                    lastEvent, events >>

\* animateGeneration (lines 268-309); step(0) runs inside the click.
animateGeneration ==
  \E s \in findSeedPoint(currentPointRef) :
    /\ lastEvent' = "animateGeneration"
    /\ lastSeed' = s
    /\ runBase' = Len(points)
    /\ step(0, s.p, timers, TRUE)

\* generateInstantly (lines 252-266); keep is the prevPoints the updater of
\* setPoints spreads before newPoints (line 265).
generateInstantlyWith(keep) ==
  \E s \in findSeedPoint(currentPointRef) :
    \E newPoints \in Iterate(s.p, pointsPerClick) :
      /\ lastEvent' = "generateInstantly"
      /\ lastSeed' = s
      /\ points' = keep \o newPoints
      /\ currentPointRef' = newPoints[Len(newPoints)]
      /\ UNCHANGED animVars

\* generateInstantly replacing the collection: setPoints(newPoints).
generateInstantlyReplacing == generateInstantlyWith(<<>>)

\* generateInstantly without currentPointRef.current = current (line 264).
generateInstantlyNoPersist ==
  \E s \in findSeedPoint(currentPointRef) :
    \E newPoints \in Iterate(s.p, pointsPerClick) :
      /\ lastEvent' = "generateInstantly"
      /\ lastSeed' = s
      /\ points' = points \o newPoints
      /\ UNCHANGED currentPointRef
      /\ UNCHANGED animVars

generateInstantly == generateInstantlyWith(points)

(***************************************************************************)
(* Controls.                                                               *)
(***************************************************************************)
\* The generate button never disabled.
GenerateNeverDisabled == FALSE

\* disabled={isGenerating} of the generate button (line 415)
GenerateDisabled == isGenerating
\* disabled={isGenerating} of the reset button (line 423)
ResetDisabled == isGenerating
\* disabled={isGenerating} of the animation toggle (line 386)
ToggleDisabled == isGenerating
\* disabled={isAnimationMode || isGenerating} of the amount radios (line 403)
AmountDisabled == isAnimationMode \/ isGenerating

\* A user event, counted against MaxEvents.
Counted == events < MaxEvents /\ events' = events + 1

\* handleGeneratePoints (lines 311-317), from the generate button.
ClickGenerate ==
  /\ Counted
  /\ ~GenerateDisabled
  /\ IF isAnimationMode
     THEN /\ Len(points) + AnimationSteps <= MaxPoints
          /\ animateGeneration
     ELSE /\ Len(points) + pointsPerClick <= MaxPoints
          /\ generateInstantly
  /\ UNCHANGED << viewport, canvas, rect, uiVars >>

\* reset (lines 93-113); cancel: the pending timeout is cleared (lines
\* 94-97); guarded: the viewport is refitted only to a canvas with area
\* (line 102).
resetWith(cancel, guarded) ==
  /\ lastEvent' = IF isGenerating THEN "resetRunning" ELSE "reset"
  /\ timers' = IF cancel /\ animationTimeoutRef # 0
               THEN { t \in timers : t.id # animationTimeoutRef }
               ELSE timers
  /\ animationTimeoutRef' = IF cancel THEN 0 ELSE animationTimeoutRef
  /\ viewport' = IF ~guarded \/ (rect.width > 0 /\ rect.height > 0)
                 THEN getInitialViewport(rect.width, rect.height)
                 ELSE viewport
  /\ points' = <<>>
  /\ currentPointRef' \in getInitialPoint
  /\ isGenerating' = FALSE
  /\ animationStep' = <<>>
  /\ highlightedVertices' = <<>>
  /\ UNCHANGED << canvas, rect, uiVars, lastSeed, runBase >>

\* reset without clearTimeout.
resetNoCancel == resetWith(FALSE, TRUE)

\* reset refitting the viewport to a canvas without area.
resetNoAreaGuard == resetWith(TRUE, FALSE)

\* reset without its last two lines (lines 110-111): animationStep and
\* highlightedVertices are kept.
resetKeepsAnimation ==
  /\ lastEvent' = IF isGenerating THEN "resetRunning" ELSE "reset"
  /\ timers' = IF animationTimeoutRef # 0
               THEN { t \in timers : t.id # animationTimeoutRef }
               ELSE timers
  /\ animationTimeoutRef' = 0
  /\ viewport' = IF rect.width > 0 /\ rect.height > 0
                 THEN getInitialViewport(rect.width, rect.height)
                 ELSE viewport
  /\ points' = <<>>
  /\ currentPointRef' \in getInitialPoint
  /\ isGenerating' = FALSE
  /\ UNCHANGED << animationStep, highlightedVertices >>
  /\ UNCHANGED << canvas, rect, uiVars, lastSeed, runBase >>

\* reset forgetting the handle of the pending timeout without clearing the
\* timeout (line 95 missing).
resetDropsHandle ==
  /\ lastEvent' = IF isGenerating THEN "resetRunning" ELSE "reset"
  /\ timers' = timers
  /\ animationTimeoutRef' = 0
  /\ viewport' = IF rect.width > 0 /\ rect.height > 0
                 THEN getInitialViewport(rect.width, rect.height)
                 ELSE viewport
  /\ points' = <<>>
  /\ currentPointRef' \in getInitialPoint
  /\ isGenerating' = FALSE
  /\ animationStep' = <<>>
  /\ highlightedVertices' = <<>>
  /\ UNCHANGED << canvas, rect, uiVars, lastSeed, runBase >>

reset == resetWith(TRUE, TRUE)

\* The reset button (lines 421-427).
ClickReset == Counted /\ ~ResetDisabled /\ reset

\* The animation toggle (line 386).
ToggleAnimationMode ==
  /\ Counted
  /\ ~ToggleDisabled
  /\ lastEvent' = "toggle"
  /\ isAnimationMode' = ~isAnimationMode
  /\ UNCHANGED << viewport, canvas, rect, isDragging, dragStartRef,
                  pointsPerClick, pointVars, animVars >>

\* The amount radios (lines 397-406).
SetPointsPerClick ==
  \E value \in PointsPerClickOptions :
    /\ Counted
    /\ ~AmountDisabled
    /\ value # pointsPerClick
    /\ lastEvent' = "amount"
    /\ pointsPerClick' = value
    /\ UNCHANGED << viewport, canvas, rect, isDragging, dragStartRef,
                    isAnimationMode, pointVars, animVars >>

(***************************************************************************)
(* Canvas events.                                                          *)
(***************************************************************************)
\* The ResizeObserver callback and setupCanvas (lines 119-135); refit: the
\* condition under which setupCanvas refits the viewport (line 122).
ResizeWith(refit) ==
  \E size \in Sizes :
    /\ Counted
    /\ size # << rect.width, rect.height >>
    /\ lastEvent' = "resize"
    /\ rect' = [width |-> size[1], height |-> size[2]]
    /\ IF size[1] > 0 /\ size[2] > 0
       THEN /\ canvas' = [width |-> size[1], height |-> size[2]]
            /\ viewport' = IF refit
                           THEN getInitialViewport(size[1], size[2])
                           ELSE viewport
       ELSE UNCHANGED << canvas, viewport >>
    /\ UNCHANGED << uiVars, pointVars, animVars >>

\* setupCanvas refitting the viewport on every resize.
ResizeAlwaysRefits == ResizeWith(TRUE)

Resize == ResizeWith(Len(points) = 0)

\* Scales explored: wheel events that would leave this set are not taken.
Scales == {0, 20, 40, 80}

\* The world point drawn at the canvas pixel pos under viewport vp: the
\* inverse of the draw transform, as handleWheel computes it (lines 328-329).
ScreenToWorld(vp, cv, pos) ==
  LET mx == pos[1] - cv.width \div 2
      my == pos[2] - cv.height \div 2
  IN Pt(FAdd(PxToWorld(mx, vp.scale), vp.x),
        FAdd(FNeg(PxToWorld(my, vp.scale)), vp.y))

\* The viewport handleWheel sets (lines 328-337) for a wheel event at pos
\* with e.deltaY = deltaY; anchored: the centre is solved for the mouse
\* position (lines 334-335).
zoomAtWith(anchored, vp, cv, pos, deltaY) ==
  LET mx == pos[1] - cv.width \div 2
      my == pos[2] - cv.height \div 2
      mouseWorld == ScreenToWorld(vp, cv, pos)
      zoomFactor == Pow998(deltaY)
      newScale == ScaleTimes(vp.scale, zoomFactor)
      newX == FSub(mouseWorld.x, PxToWorld(mx, newScale))
      newY == FAdd(mouseWorld.y, PxToWorld(my, newScale))
  IN IF anchored
     THEN [x |-> newX, y |-> newY, scale |-> newScale]
     ELSE [x |-> vp.x, y |-> vp.y, scale |-> newScale]

\* A zoom about the centre of the canvas whatever the mouse position.
zoomAtCentre(vp, cv, pos, deltaY) == zoomAtWith(FALSE, vp, cv, pos, deltaY)

zoomAt(vp, cv, pos, deltaY) == zoomAtWith(TRUE, vp, cv, pos, deltaY)

\* handleWheel also clearing the highlights.
handleWheelClearsHighlights ==
  \E pos \in Positions, deltaY \in WheelDeltas :
    LET new == zoomAt(viewport, canvas, pos, deltaY)
    IN /\ Counted
       /\ new.scale \in Scales
       /\ lastEvent' = "wheel"
       /\ viewport' = new
       /\ highlightedVertices' = <<>>
       /\ UNCHANGED << canvas, rect, uiVars, pointVars, isGenerating,
                       animationStep, animationTimeoutRef, timers, runBase >>

\* handleWheel (lines 319-338).
handleWheel ==
  \E pos \in Positions, deltaY \in WheelDeltas :
    LET new == zoomAt(viewport, canvas, pos, deltaY)
    IN /\ Counted
       /\ new.scale \in Scales
       /\ lastEvent' = "wheel"
       /\ viewport' = new
       /\ UNCHANGED << canvas, rect, uiVars, pointVars, animVars >>

\* handleMouseDown (lines 340-343).
handleMouseDown ==
  \E pos \in Positions :
    /\ Counted
    /\ lastEvent' = "mouseDown"
    /\ isDragging' = TRUE
    /\ dragStartRef' = Pt(pos[1], pos[2])
    /\ UNCHANGED << viewport, canvas, rect, pointsPerClick, isAnimationMode,
                    pointVars, animVars >>

\* handleMouseUp (lines 345-347) and handleMouseLeave (lines 361-363).
handleMouseUp ==
  /\ Counted
  /\ isDragging
  /\ lastEvent' = "mouseUp"
  /\ isDragging' = FALSE
  /\ UNCHANGED << viewport, canvas, rect, dragStartRef, pointsPerClick,
                  isAnimationMode, pointVars, animVars >>

\* handleMouseMove (lines 349-359).
handleMouseMove ==
  \E pos \in Positions :
    LET dx == pos[1] - dragStartRef.x
        dy == pos[2] - dragStartRef.y
    IN /\ Counted
       /\ isDragging
       /\ lastEvent' = "mouseMove"
       /\ dragStartRef' = Pt(pos[1], pos[2])
       /\ viewport' = [viewport EXCEPT
             !.x = FSub(viewport.x, PxToWorld(dx, viewport.scale)),
             !.y = FAdd(viewport.y, PxToWorld(dy, viewport.scale))]
       /\ UNCHANGED << canvas, rect, isDragging, pointsPerClick,
                       isAnimationMode, pointVars, animVars >>

(***************************************************************************)
(* Specifications.                                                         *)
(***************************************************************************)
\* The state after mounting: the mount effect (lines 138-142) has sized the
\* canvas from a square bounding rectangle.  currentPointRef holds one of
\* the points getInitialPoint returns; which one is never read, because
\* findSeedPoint draws a new seed while points is empty.
Init ==
  /\ rect = [width |-> 44, height |-> 44]
  /\ canvas = [width |-> 44, height |-> 44]
  /\ viewport = getInitialViewport(44, 44)
  /\ points = <<>>
  /\ currentPointRef = InitialPointAt(1, 1)
  /\ isDragging = FALSE
  /\ dragStartRef = Pt(0, 0)
  /\ pointsPerClick = 1
  /\ isAnimationMode = FALSE
  /\ isGenerating = FALSE
  /\ animationStep = <<>>
  /\ highlightedVertices = <<>>
  /\ animationTimeoutRef = 0
  /\ timers = {}
  /\ lastSeed = SeedResult(Pt(0, 0), "none")
  /\ runBase = 0
  /\ lastEvent = "mount"
  /\ events = 0

Next ==
  \/ ClickGenerate
  \/ ClickReset
  \/ ToggleAnimationMode
  \/ SetPointsPerClick
  \/ Resize
  \/ handleWheel
  \/ handleMouseDown
  \/ handleMouseUp
  \/ handleMouseMove
  \/ TimerFire

Spec == Init /\ [][Next]_vars

\* The timer of window.setTimeout fires every pending callback.
LiveSpec == Spec /\ WF_vars(TimerFire)

\* reset called while the reset button is disabled.
ResetCall == Counted /\ ResetDisabled /\ reset

NextReset == Next \/ ResetCall

\* The handlers as above, and reset callable in every state.
SpecReset == Init /\ [][NextReset]_vars

(***************************************************************************)
(* Properties.  A step with events' = events is a timer callback; a step   *)
(* with events' # events is the user event named by lastEvent'.            *)
(***************************************************************************)
TimerStep == events' = events
UserStep == events' # events

C1_RunStep ==
  /\ (~isGenerating /\ isGenerating') =>
       /\ UserStep /\ lastEvent' = "animateGeneration"
       /\ runBase' = Len(points)
       /\ Len(points') = Len(points) + 1
  /\ (isGenerating /\ isGenerating' /\ TimerStep) =>
       /\ Len(points') = Len(points) + 1
       /\ Len(points') <= runBase + AnimationSteps
       /\ animationStep' # <<>>
  /\ (isGenerating /\ UserStep) =>
       /\ isGenerating'
       /\ points' = points
  /\ (isGenerating /\ ~isGenerating') =>
       /\ TimerStep
       /\ points' = points
       /\ Len(points') = runBase + AnimationSteps
       /\ animationStep' = <<>>
       /\ highlightedVertices' = <<>>
       /\ timers' = {}

\* C1: a run started from Idle and not interrupted by reset goes Idle ->
\* Running -> Idle: it starts with a click on generate, every tick appends
\* one point, the run ends by a timer callback when exactly AnimationSteps
\* (100 in the source) points have been appended, leaving animationStep
\* null and highlightedVertices empty; and if the timer fires every pending
\* callback, every started run returns to Idle.
C1_FullRun ==
  /\ [][C1_RunStep]_vars
  /\ (isGenerating ~> ~isGenerating)

\* A run that started with one point in the collection has ended by itself.
C1_Witness ==
  /\ ~isGenerating
  /\ animationTimeoutRef # 0
  /\ runBase = 1
  /\ Len(points) = runBase + AnimationSteps
  /\ animationStep = <<>>
  /\ highlightedVertices = <<>>

C2_IdleStep ==
  (~isGenerating /\ Len(points') # Len(points)) =>
    /\ UserStep
    /\ lastEvent' \in {"generateInstantly", "animateGeneration",
                       "reset", "resetRunning"}

\* C2: when reset is called during a run, the run is over as reset returns
\* (isGenerating false, no timeout pending, points empty), and while no run
\* is going on the length of points changes only by a generate or a reset:
\* no callback of the cancelled run appends a point.
C2_ResetCancelsRun ==
  /\ [](lastEvent = "resetRunning" =>
          (~isGenerating /\ timers = {} /\ animationTimeoutRef = 0
           /\ points = <<>>))
  /\ [][C2_IdleStep]_vars

\* reset has been called during a run and has ended it.
C2_Witness ==
  /\ lastEvent = "resetRunning"
  /\ ~isGenerating
  /\ timers = {}
  /\ points = <<>>

C3_RunningStep ==
  /\ isGenerating => isAnimationMode' = isAnimationMode
  /\ (isGenerating /\ UserStep) =>
       lastEvent' \notin {"generateInstantly", "animateGeneration"}
  /\ (UserStep /\ lastEvent' = "animateGeneration") => ~isGenerating

\* C3: at most one timeout is pending at any time and only during a run;
\* during a run neither generateInstantly nor animateGeneration is called
\* and isAnimationMode does not change; animateGeneration is called only
\* when no run is going on.
C3_OneTickChain ==
  /\ [](Cardinality(timers) <= 1 /\ (timers # {} => isGenerating))
  /\ [][C3_RunningStep]_vars

\* A run goes on after a wheel event that arrived during it.
C3_Witness ==
  /\ isGenerating
  /\ Cardinality(timers) = 1
  /\ lastEvent = "wheel"
  /\ Len(points) > runBase + 1

C4_ResetStep ==
  (UserStep /\ lastEvent' \in {"reset", "resetRunning"}) =>
    /\ ~isGenerating'
    /\ points' = <<>>
    /\ animationStep' = <<>>
    /\ highlightedVertices' = <<>>
    /\ InTriangle(currentPointRef')
    /\ viewport' = IF rect.width > 0 /\ rect.height > 0
                   THEN getInitialViewport(rect.width, rect.height)
                   ELSE viewport

\* C4: reset, from any state, leaves isGenerating false, points empty,
\* animationStep null, highlightedVertices empty, currentPointRef a point
\* inside the triangle, and the viewport equal to getInitialViewport of
\* the size of the canvas, or unchanged when the canvas has no area.
C4_ResetPostState == [][C4_ResetStep]_vars

\* reset has run on a canvas without area and kept a zoomed viewport.
C4_Witness ==
  /\ lastEvent = "reset"
  /\ rect.width = 0
  /\ points = <<>>
  /\ viewport # getInitialViewport(canvas.width, canvas.height)

\* C5: the scale of the viewport is strictly positive in every reachable
\* state.
C5_ScalePositive == viewport.scale > 0

C6_BatchStep ==
  (UserStep /\ lastEvent' = "generateInstantly") =>
    LET old == Len(points)
        pred(i) == IF i = old + 1 THEN lastSeed'.p ELSE points'[i - 1]
    IN /\ ~isGenerating
       /\ Len(points') = old + pointsPerClick
       /\ SubSeq(points', 1, old) = points
       /\ \A i \in (old + 1)..Len(points') :
            \E k \in 1..3 : points'[i] = Midpoint(pred(i), VERTICES[k])
       /\ currentPointRef' = points'[Len(points')]

\* C6: generateInstantly appends exactly pointsPerClick points in one
\* update: the previous points stay as a prefix, each new point is the
\* midpoint of the point before it in the batch (the seed for the first)
\* and one of the three vertices, and currentPointRef becomes the last
\* point of the batch.
C6_BatchAppends == [][C6_BatchStep]_vars

\* A batch of three points has been appended to three earlier points.
C6_Witness ==
  /\ lastEvent = "generateInstantly"
  /\ pointsPerClick = 3
  /\ Len(points) = 6
  /\ currentPointRef = points[6]

\* C7: every point of the collection lies inside or on the boundary of the
\* triangle.
C7_PointsInTriangle == \A i \in 1..Len(points) : InTriangle(points[i])

\* C8: every seed findSeedPoint has returned lies inside the triangle.
C8_SeedInTriangle == lastSeed.how # "none" => InTriangle(lastSeed.p)

C9_ResizeStep ==
  (UserStep /\ lastEvent' = "resize") =>
    /\ viewport' = IF rect'.width > 0 /\ rect'.height > 0 /\ Len(points) = 0
                   THEN getInitialViewport(rect'.width, rect'.height)
                   ELSE viewport
    /\ (rect'.width > 0 /\ rect'.height > 0) => canvas' = rect'
    /\ ~(rect'.width > 0 /\ rect'.height > 0) => canvas' = canvas
    /\ UNCHANGED << points, currentPointRef, isGenerating, animationStep,
                    highlightedVertices, timers, animationTimeoutRef >>

\* C9: a resize to a positive width and height refits the viewport to
\* getInitialViewport(width, height) only if points is empty and otherwise
\* leaves x, y and scale of the viewport unchanged; it leaves points,
\* currentPointRef and the state of the run unchanged; a resize to a
\* canvas without area changes nothing.
C9_ResizeFrame == [][C9_ResizeStep]_vars

\* The canvas has been resized with points in the collection, and the
\* viewport is not the fitted one.
C9_Witness ==
  /\ lastEvent = "resize"
  /\ Len(points) > 0
  /\ rect.width > 0
  /\ canvas = rect
  /\ viewport # getInitialViewport(rect.width, rect.height)

\* C10: reset stays available during a run: whenever isGenerating holds,
\* the reset button is enabled (wheel and mouse events are never disabled).
C10_ResetAvailableWhileRunning == isGenerating => ~ResetDisabled

\* A viewport of finite numbers with a positive scale.
ProperViewport(vp) ==
  /\ IsFinite(vp.x) /\ IsFinite(vp.y)
  /\ IsFinite(vp.scale) /\ vp.scale > 0

VertexOrders ==
  { << VERTICES[o[1]], VERTICES[o[2]], VERTICES[o[3]] >> :
      o \in { <<1, 2, 3>>, <<1, 3, 2>>, <<2, 1, 3>>,
              <<2, 3, 1>>, <<3, 1, 2>>, <<3, 2, 1>> } }

\* Points on the boundary of the triangle: the vertices, and the midpoint
\* and the quarter point of every edge.
BoundaryProbes ==
  { VERTICES[k] : k \in 1..3 }
  \cup { Pt((VERTICES[a].x + VERTICES[b].x) \div 2,
            (VERTICES[a].y + VERTICES[b].y) \div 2) : a, b \in 1..3 }
  \cup { Pt((3 * VERTICES[a].x + VERTICES[b].x) \div 4,
            (3 * VERTICES[a].y + VERTICES[b].y) \div 4) : a, b \in 1..3 }

\* Points off the boundary: inside the triangle, and outside it on every
\* side.
OtherProbes ==
  { Pt(G \div 2, G \div 4), Pt(G \div 4, G \div 8),
    Pt(0 - G, 0 - G), Pt(G \div 2, 0 - Sub), Pt(G, G), Pt(0, G),
    Pt(2 * G, 0), Pt(0 - Sub, 0), Pt(G \div 2, 2 * G) }

\* The points the program has computed last in this state: the seed, the
\* current point and the newest point of the collection.
StatePoints ==
  { currentPointRef, lastSeed.p }
  \cup { points[i] : i \in { Len(points) } \ {0} }

\* isPointInTriangle at p: the same for every order of the vertices, equal
\* to membership in the closed triangle when p is finite, and false exactly
\* when a cross product is strictly positive and one strictly negative.
C12_At(p) ==
  LET d == << CrossD(p, VERTICES[1], VERTICES[2]),
              CrossD(p, VERTICES[2], VERTICES[3]),
              CrossD(p, VERTICES[3], VERTICES[1]) >>
      r == isPointInTriangle(p, VERTICES)
  IN /\ \A o \in VertexOrders : isPointInTriangle(p, o) = r
     /\ (IsFinite(p.x) /\ IsFinite(p.y)) => (r = InTriangle(p))
     /\ r = ~((\E i \in 1..3 : FLt(d[i], 0)) /\ (\E i \in 1..3 : FLt(0, d[i])))

C12_AtProbes ==
  /\ \A p \in BoundaryProbes : isPointInTriangle(p, VERTICES)
  /\ \A p \in BoundaryProbes \cup OtherProbes : C12_At(p)

\* C12: isPointInTriangle gives the same result for every order of the
\* three vertices, is true on the vertices and on the edges, agrees for
\* every finite point with membership in the closed triangle, and is false
\* exactly when one of the three cross products is strictly positive and
\* one strictly negative; on the probes, and on every point the program
\* computes.
C12_PointInTriangle ==
  /\ C12_AtProbes
  /\ \A p \in StatePoints : C12_At(p)

\* The collection is full of points inside the triangle, no two of them
\* the same, and the six orders and the probes on both sides are there.
C12_Witness ==
  /\ Len(points) = MaxPoints
  /\ \A i \in 1..Len(points) : isPointInTriangle(points[i], VERTICES)
  /\ Cardinality({ points[i] : i \in 1..Len(points) }) = MaxPoints
  /\ Cardinality(VertexOrders) = 6
  /\ \E p \in OtherProbes : ~isPointInTriangle(p, VERTICES)

\* A timer callback that appends the last point of a run (count = 99).
LastPointTick ==
  /\ TimerStep
  /\ isGenerating
  /\ Len(points') = Len(points) + 1
  /\ Len(points') = runBase + AnimationSteps

\* C13 (as the spec states it): the callback that appends the last point of
\* a run ends the run in the same step: no timeout is left pending,
\* isGenerating is false, currentPointRef is the final point, animationStep
\* is null and highlightedVertices is empty.
C13_LastTickEndsRun ==
  [][LastPointTick =>
       /\ ~isGenerating'
       /\ timers' = {}
       /\ currentPointRef' = points'[Len(points')]
       /\ animationStep' = <<>>
       /\ highlightedVertices' = <<>>]_vars

C13_TickStep ==
  /\ (Len(points') = Len(points) + 1
      /\ (TimerStep \/ lastEvent' = "animateGeneration")) =>
       /\ isGenerating'
       /\ Len(points') - runBase' \in 1..AnimationSteps
       /\ \E t \in timers' :
            /\ timers' = {t}
            /\ t.count = Len(points') - runBase'
            /\ t.localCurrent = points'[Len(points')]
            /\ animationTimeoutRef' = t.id
       /\ animationStep' # <<>>
       /\ highlightedVertices' # <<>>
       /\ currentPointRef' = currentPointRef
  /\ (TimerStep /\ isGenerating /\ ~isGenerating') =>
       /\ points' = points
       /\ Len(points) = runBase + AnimationSteps
       /\ timers = { t \in timers : t.count = AnimationSteps }
       /\ timers' = {}
       /\ currentPointRef' = points[Len(points)]
       /\ animationStep' = <<>>
       /\ highlightedVertices' = <<>>

\* C13 (amended): every callback that appends a point, the one with count =
\* 99 included, leaves the run going and schedules exactly one callback,
\* with count + 1; the run is ended by the callback with count = 100, which
\* appends no point, sets isGenerating false, stores the final point in
\* currentPointRef and clears animationStep and highlightedVertices.
C13_ExtraTickEndsRun == [][C13_TickStep]_vars

\* The last point of a run has been appended and the run is still going,
\* with the callback of count 100 pending.
C13_Witness ==
  /\ isGenerating
  /\ Len(points) = runBase + AnimationSteps
  /\ \E t \in timers : t.count = AnimationSteps
  /\ animationStep # <<>>
  /\ currentPointRef # points[Len(points)]

\* C14: whenever no run is going on and points is not empty, currentPointRef
\* is the last element of points.
C14_CurrentIsLast ==
  (~isGenerating /\ Len(points) > 0) => currentPointRef = points[Len(points)]

\* A batch, then a completed run: the collection is full, no run is going
\* on, and the current point is the last point of the run.
C14_Witness ==
  /\ ~isGenerating
  /\ animationTimeoutRef # 0
  /\ runBase > 0
  /\ Len(points) = MaxPoints
  /\ currentPointRef = points[Len(points)]
  /\ currentPointRef # points[runBase]

\* C15: in every state where no run is going on, animationStep is null and
\* highlightedVertices is empty.
C15_AnimationStateOnlyWhileRunning ==
  ~isGenerating => (animationStep = <<>> /\ highlightedVertices = <<>>)

\* reset has ended a run that had published a step, and nothing of the run
\* is left.
C15_Witness ==
  /\ lastEvent = "resetRunning"
  /\ lastSeed.how # "none"
  /\ ~isGenerating
  /\ animationStep = <<>>
  /\ highlightedVertices = <<>>

\* The number of ticks the current run has made.
TicksMade == Len(points) - runBase

\* The point the tick that appended points[i] started from.
PointBefore(i) == IF i = runBase + 1 THEN lastSeed.p ELSE points[i - 1]

\* C16: during a run, after the k-th tick, highlightedVertices holds exactly
\* min(k, 4) entries, newest first: entry i was added by tick k - i + 1 (its
\* vertex is the target of that tick) and has life 5 - i, so the lives are
\* 4, 3, 2, 1 and the entry of tick k - 4 is gone.
C16_HighlightQueue ==
  isGenerating =>
    /\ TicksMade >= 1
    /\ Len(highlightedVertices) = Min(TicksMade, HighlightLife - 1)
    /\ \A i \in 1..Len(highlightedVertices) :
         /\ highlightedVertices[i].life = HighlightLife - i
         /\ highlightedVertices[i].life \in 1..4
         /\ highlightedVertices[i].vertex \in { VERTICES[k] : k \in 1..3 }
         /\ points[Len(points) - i + 1] =
              Midpoint(PointBefore(Len(points) - i + 1),
                       highlightedVertices[i].vertex)

\* The fifth tick of a run has dropped the highlight of the first tick: the
\* queue holds four entries, and the first tick went to another vertex than
\* the tick whose entry is now the oldest.
C16_Witness ==
  /\ isGenerating
  /\ TicksMade = 5
  /\ Len(highlightedVertices) = 4
  /\ highlightedVertices[4].life = 1
  /\ IsFinite(points[runBase + 1].x)
  /\ points[runBase + 1] #
       Midpoint(PointBefore(runBase + 1), highlightedVertices[4].vertex)

Abs(a) == IF a < 0 THEN 0 - a ELSE a

\* p lies in the world rectangle the canvas shows, bounds included: within
\* half the canvas width and height, in pixels, of the centre of the
\* viewport.  A viewport that is not proper shows no point.
InVisibleRect(p, vp, cv) ==
  /\ ProperViewport(vp)
  /\ IsFinite(p.x) /\ IsFinite(p.y)
  /\ 2 * vp.scale * Abs(p.x - vp.x) <= cv.width * G
  /\ 2 * vp.scale * Abs(p.y - vp.y) <= cv.height * G

C17_SeedStep ==
  (UserStep /\ lastEvent' \in {"generateInstantly", "animateGeneration"}) =>
    LET reuse == Len(points) > 0
                 /\ InVisibleRect(currentPointRef, viewport, canvas)
    IN /\ reuse => lastSeed' = SeedResult(currentPointRef, "current")
       /\ ~reuse => lastSeed'.how \in {"sampled", "fallback"}
       /\ lastSeed'.how = "sampled" =>
            \E rx \in Randoms, ry \in Randoms :
              lastSeed'.p = RandomPointInView(View(viewport, canvas), rx, ry)
       /\ lastSeed'.how = "fallback" => lastSeed'.p \in getInitialPoint

\* C17: findSeedPoint returns the current point unchanged if and only if
\* points is not empty and the current point lies in the visible world
\* rectangle, bounds included; otherwise the seed is a fresh draw in the
\* visible rectangle or the fallback of getInitialPoint, not the current
\* point.
C17_SeedReuse == [][C17_SeedStep]_vars

\* A second batch started from a fresh seed, because a finite current point
\* had left the visible rectangle of a proper viewport.
C17_Witness ==
  /\ lastEvent = "generateInstantly"
  /\ pointsPerClick = 1
  /\ Len(points) = 2
  /\ lastSeed.how = "sampled"
  /\ ProperViewport(viewport)
  /\ IsFinite(points[1].x)
  /\ ~InVisibleRect(points[1], viewport, canvas)

C18_CallbackStep ==
  /\ TimerStep => isGenerating
  /\ ~isGenerating =>
       (TimerStep =>
          UNCHANGED << points, animationStep, highlightedVertices >>)

\* C18: no timeout callback runs while no run is going on: in every state
\* without a run no timeout is pending, after reset as after a completed
\* run, and every step of a callback starts in a state with a run going on,
\* so none appends a point, sets animationStep or adds a highlight outside
\* a run.
C18_NoTickWhileIdle ==
  /\ [](~isGenerating => timers = {})
  /\ [][C18_CallbackStep]_vars

\* A run has completed, a wheel event has followed, and no timeout is
\* pending although the handle of the last one is still stored.
C18_Witness ==
  /\ ~isGenerating
  /\ timers = {}
  /\ animationTimeoutRef # 0
  /\ lastEvent = "wheel"
  /\ Len(points) = runBase + AnimationSteps

\* C19: during a run, after every tick, animationStep.newPoint is the last
\* element of points and the midpoint of animationStep.currentPoint and
\* animationStep.targetVertex, the first highlight is on
\* animationStep.targetVertex, and animationStep.currentPoint is the point
\* the tick before appended, or the seed after the first tick.
C19_ConsistentSnapshot ==
  isGenerating =>
    /\ Len(animationStep) = 1
    /\ Len(points) > runBase
    /\ Len(highlightedVertices) >= 1
    /\ animationStep[1].newPoint = points[Len(points)]
    /\ animationStep[1].targetVertex \in { VERTICES[k] : k \in 1..3 }
    /\ animationStep[1].newPoint =
         Midpoint(animationStep[1].currentPoint, animationStep[1].targetVertex)
    /\ highlightedVertices[1].vertex = animationStep[1].targetVertex
    /\ animationStep[1].currentPoint = PointBefore(Len(points))

\* After the third tick of a run that started from a non-empty collection,
\* the published step goes from the second point of the run to the third.
C19_Witness ==
  /\ isGenerating
  /\ runBase > 0
  /\ TicksMade = 3
  /\ IsFinite(animationStep[1].newPoint.x)
  /\ animationStep[1].currentPoint = points[Len(points) - 1]
  /\ animationStep[1].currentPoint # lastSeed.p
  /\ animationStep[1].newPoint # animationStep[1].currentPoint

C20_FrameStep ==
  /\ viewport' # viewport =>
       /\ UserStep
       /\ lastEvent' \in {"mouseMove", "wheel", "reset", "resetRunning",
                          "resize"}
  /\ (TimerStep
      \/ lastEvent' \in {"generateInstantly", "animateGeneration"}) =>
       viewport' = viewport
  /\ (UserStep /\ lastEvent' \in {"mouseDown", "mouseMove", "mouseUp",
                                  "wheel"}) =>
       UNCHANGED << points, currentPointRef, animationStep,
                    highlightedVertices, isGenerating, timers,
                    animationTimeoutRef >>

====
